---- MODULE Spec2Model ----
(***************************************************************************)
(* A model of bot.py: the DiscordClient connection loop with its           *)
(* websocket callbacks and heartbeat threads, and the OnlineManager that   *)
(* launches one client thread per token, polls thread liveness, restarts   *)
(* dead clients and stops the fleet.                                       *)
(*                                                                         *)
(* Threads are interleaved at the level of the statements that read or     *)
(* write state shared between threads.  Sequences are 1-based: position k  *)
(* of clients/threads/tokens is the code's list index k-1, so the code's   *)
(* token_index = client_index + 1 is the position k itself.                *)
(*                                                                         *)
(* Time is a discrete tick, the unit of the heartbeat interval.  Every      *)
(* thread is either computing or waiting (in time.sleep, on the network,   *)
(* or finished).  Computing takes no time: a tick passes, and a sleep      *)
(* ends, only when no thread is computing (Quiet), so heartbeats are sent  *)
(* on schedule.  The sleeps of connect() and of the manager last for an    *)
(* arbitrary time; network events and the stop signal arrive at any        *)
(* moment.                                                                 *)
(***************************************************************************)
EXTENDS Integers, Sequences, FiniteSets, Bags, TLC

\* ---------------------------------------------------------------- bounds
\* Fleet sizes explored (0..NumTokens under Spec, 0..FleetTokens under
\* SpecFleet), restarts the monitor may perform, heartbeat threads alive at
\* once per client, and the largest heartbeat interval (in ticks) a hello
\* may carry.
NumTokens == 1
FleetTokens == 2
MaxRestarts == 1
MaxHb == 2
MaxInterval == 1

\* ------------------------------------------------------ program constants
max_reconnect_attempts == 5
BackoffBase == 5
BackoffCap == 30
ExceptionDelay == 10
HealthFactor == 3
StaggerDelay == 5

Sessions == 1..(FleetTokens + MaxRestarts)
Intervals == 1..MaxInterval
AgeCap == HealthFactor * MaxInterval + 1
Token(k) == <<"token", k>>
NoToken == <<"token", 0>>

VARIABLES
    \* OnlineManager
    tokens, clients, threads, mgr_should_stop,
    \* the main thread: its position, its loop index, the client it has
    \* created but not yet stored, the number of DiscordClient objects made
    mpc, idx, newc, nsess,
    \* DiscordClient fields, per object
    token, token_index, should_stop, connected, reconnect_attempts,
    heartbeat_interval, last_heartbeat, user_data,
    \* the client's thread running connect(): its position and current sleep
    tpc, wait_time,
    \* the client's transport (self.ws): its socket state, a close request
    \* not yet delivered, the handshake progress of this connection, and
    \* the age in ticks of the oldest heartbeat sent on it that the gateway
    \* has not acknowledged (-1: none outstanding)
    ws, wsCloseReq, proto, noack,
    \* the client's live heartbeat threads, and whether one of them has sent
    \* a frame after the transport it was spawned on had closed
    hb, hbLeak,
    \* history of each client: the "max attempts reached" events it has
    \* emitted, the branch of connect() whose sleep it is in ("closed": after
    \* run_forever returned, "raised": the except branch, "none": not
    \* sleeping), the connection attempts and the backoff sleeps of its
    \* current series (a series begins with the first attempt of the client
    \* and again with every attempt whose transport opens), and whether
    \* stop() has been called on it in the state an earlier stop() had left
    \* it in
    gave_up, path, tries, waits, stops,
    \* seconds left of the main thread's stagger sleep, and seconds since the
    \* latest connection attempt of any client began (-1: none yet)
    sleep_left, since_begin,
    \* a thread calling get_status(): its position, its loop index, and the
    \* snapshot it is building
    spc, sidx, st_total, st_connected, st_healthy, st_clients, st_entry

mgrVars == <<tokens, clients, threads, mgr_should_stop, mpc, idx, newc, nsess>>
objVars == <<token, token_index, should_stop, connected, reconnect_attempts,
             heartbeat_interval, last_heartbeat, user_data>>
thrVars == <<tpc, wait_time, ws, wsCloseReq, proto, noack, hb, hbLeak>>
histVars == <<gave_up, path, tries, waits, stops>>
timeVars == <<sleep_left, since_begin>>
statVars == <<spc, sidx, st_total, st_connected, st_healthy, st_clients,
              st_entry>>
vars == <<mgrVars, objVars, thrVars, histVars, timeVars, statVars>>

Upd(f, s, v) == [f EXCEPT ![s] = v]
Min(a, b) == IF a < b THEN a ELSE b

\* ------------------------------------------------------------ scheduling
\* The thread of client s, or one of its heartbeat threads, is computing.
Busy(s) ==
    \/ tpc[s] \in {"start", "check", "create"}
    \/ \E r \in BagToSet(hb[s]) : r.sleep = 0

\* The main thread is computing: it is not in the stagger sleep of
\* start_all_clients, the poll sleep of monitor_clients, the cleanup wait
\* of restart_client or the wait of stop_all_clients, and has not returned.
\* (A poll that would need a restart beyond MaxRestarts stays where it is.)
MainBusy ==
    \/ mpc = "start" /\ (idx = 1 \/ idx > Len(tokens))
    \/ mpc \in {"append", "restart", "restart_assign"}
    \/ mpc = "monitor" /\ idx <= Len(clients)
          /\ ~(/\ tpc[threads[idx]] = "done" /\ ~should_stop[clients[idx]]
               /\ nsess >= Len(tokens) + MaxRestarts)
    \/ mpc = "stop_all" /\ idx <= Len(clients)

\* A thread is inside get_status().
StatusBusy == spc \notin {"idle", "returned"}

Quiet == ~MainBusy /\ ~StatusBusy /\ \A s \in Sessions : ~Busy(s)

\* ----------------------------------------------------------------- Init
\* The state after OnlineManager.__init__ for a list of n tokens.
Constructed(n) ==
    /\ tokens = [k \in 1..n |-> Token(k)]
    /\ clients = << >>
    /\ threads = << >>
    /\ mgr_should_stop = FALSE
    /\ mpc = "start"
    /\ idx = 1
    /\ newc = 0
    /\ nsess = 0
    /\ token = [s \in Sessions |-> NoToken]
    /\ token_index = [s \in Sessions |-> 0]
    /\ should_stop = [s \in Sessions |-> FALSE]
    /\ connected = [s \in Sessions |-> FALSE]
    /\ reconnect_attempts = [s \in Sessions |-> 0]
    /\ heartbeat_interval = [s \in Sessions |-> 0]
    /\ last_heartbeat = [s \in Sessions |-> -1]
    /\ user_data = [s \in Sessions |-> FALSE]
    /\ tpc = [s \in Sessions |-> "none"]
    /\ wait_time = [s \in Sessions |-> 0]
    /\ ws = [s \in Sessions |-> "none"]
    /\ wsCloseReq = [s \in Sessions |-> FALSE]
    /\ proto = [s \in Sessions |-> "none"]
    /\ noack = [s \in Sessions |-> -1]
    /\ hb = [s \in Sessions |-> EmptyBag]
    /\ hbLeak = [s \in Sessions |-> FALSE]
    /\ gave_up = [s \in Sessions |-> 0]
    /\ path = [s \in Sessions |-> "none"]
    /\ tries = [s \in Sessions |-> 0]
    /\ waits = [s \in Sessions |-> 0]
    /\ stops = [s \in Sessions |-> FALSE]
    /\ sleep_left = 0
    /\ since_begin = -1
    /\ spc = "idle"
    /\ sidx = 1
    /\ st_total = 0
    /\ st_connected = 0
    /\ st_healthy = 0
    /\ st_clients = << >>
    /\ st_entry = <<0, FALSE>>

Init == \E n \in 0..NumTokens : Constructed(n)

InitFleet == \E n \in 0..FleetTokens : Constructed(n)


\* ------------------------------------------------------- DiscordClient
\* DiscordClient.__init__: the fields of a new client object s.
InitClient(s, tok, ti) ==
    /\ token' = Upd(token, s, tok)
    /\ token_index' = Upd(token_index, s, ti)
    /\ should_stop' = Upd(should_stop, s, FALSE)
    /\ connected' = Upd(connected, s, FALSE)
    /\ reconnect_attempts' = Upd(reconnect_attempts, s, 0)
    /\ heartbeat_interval' = Upd(heartbeat_interval, s, 0)
    /\ last_heartbeat' = Upd(last_heartbeat, s, -1)
    /\ user_data' = Upd(user_data, s, FALSE)
    /\ ws' = Upd(ws, s, "none")

\* The state stop() leaves a client in: the flags set and the close of
\* its transport, if it has a live one, requested.
Stopped(s) ==
    /\ should_stop[s] /\ ~connected[s]
    /\ ws[s] \in {"connecting", "open"} => wsCloseReq[s]

\* A stop() that flips should_stop instead of setting it.
StopToggle(s) ==
    /\ should_stop' = Upd(should_stop, s, ~should_stop[s])
    /\ connected' = Upd(connected, s, FALSE)
    /\ wsCloseReq' = IF ws[s] \in {"connecting", "open"}
                     THEN Upd(wsCloseReq, s, TRUE) ELSE wsCloseReq
    /\ stops' = Upd(stops, s, stops[s] \/ Stopped(s))

\* DiscordClient.stop, called from the main thread: sets the flags and asks
\* the current transport, if any, to close.
Stop(s) ==
    /\ should_stop' = Upd(should_stop, s, TRUE)
    /\ connected' = Upd(connected, s, FALSE)
    /\ wsCloseReq' = IF ws[s] \in {"connecting", "open"}
                     THEN Upd(wsCloseReq, s, TRUE) ELSE wsCloseReq
    /\ stops' = Upd(stops, s, stops[s] \/ Stopped(s))

\* DiscordClient.is_healthy; last_heartbeat is kept as the ticks elapsed
\* since the last heartbeat was sent (-1: none sent yet).
IsHealthy(s) ==
    IF ~connected[s] \/ should_stop[s] THEN FALSE
    ELSE IF last_heartbeat[s] # -1 /\ heartbeat_interval[s] # 0
            /\ last_heartbeat[s] > heartbeat_interval[s] * HealthFactor
         THEN FALSE
         ELSE TRUE

\* connect(), first two statements.
ConnectBegin(s) ==
    /\ tpc[s] = "start"
    /\ should_stop' = Upd(should_stop, s, FALSE)
    /\ connected' = Upd(connected, s, FALSE)
    /\ tpc' = Upd(tpc, s, "check")
    /\ UNCHANGED <<mgrVars, token, token_index, reconnect_attempts,
                   heartbeat_interval, last_heartbeat, user_data,
                   wait_time, ws, wsCloseReq, proto, noack, hb, hbLeak>>
    /\ UNCHANGED <<gave_up, path, tries, waits, stops,
                   sleep_left, since_begin, spc, sidx, st_total,
                   st_connected, st_healthy, st_clients, st_entry>>

\* connect(), the while condition.
LoopCondition(s) ==
    ~should_stop[s] /\ reconnect_attempts[s] < max_reconnect_attempts

ConnectLoop(s) ==
    /\ tpc[s] = "check"
    /\ tpc' = Upd(tpc, s, IF LoopCondition(s) THEN "create" ELSE "done")
    /\ UNCHANGED <<mgrVars, objVars, wait_time, ws, wsCloseReq, proto,
                   noack, hb, hbLeak>>
    /\ UNCHANGED <<gave_up, path, tries, waits, stops,
                   sleep_left, since_begin, spc, sidx, st_total,
                   st_connected, st_healthy, st_clients, st_entry>>

\* connect(): a new WebSocketApp is stored in self.ws and run_forever is
\* entered; the socket starts connecting.
CreateTransport(s) ==
    /\ tpc[s] = "create"
    /\ ws' = Upd(ws, s, "connecting")
    /\ wsCloseReq' = Upd(wsCloseReq, s, FALSE)
    /\ proto' = Upd(proto, s, "none")
    /\ noack' = Upd(noack, s, -1)
    /\ tpc' = Upd(tpc, s, "run")
    /\ UNCHANGED <<mgrVars, objVars, wait_time, hb, hbLeak>>
    /\ tries' = Upd(tries, s, tries[s] + 1)
    /\ since_begin' = 0
    /\ UNCHANGED <<gave_up, path, waits, stops, sleep_left, spc,
                   sidx, st_total, st_connected, st_healthy, st_clients,
                   st_entry>>

\* A connect() that counts every failed attempt twice.
CountedAttemptsByTwo(s) ==
    IF should_stop[s] THEN reconnect_attempts[s]
    ELSE reconnect_attempts[s] + 2

\* connect(), after run_forever returned or raised: the attempt is counted
\* unless a stop was requested.
CountedAttempts(s) ==
    IF should_stop[s] THEN reconnect_attempts[s]
    ELSE reconnect_attempts[s] + 1

\* A connect() that never leaves the loop on reaching the limit.
AfterFailurePcNoLimit(s) ==
    IF should_stop[s] THEN "check" ELSE "backoff"

\* connect(), where the thread goes after a failed attempt: round the loop
\* (stop requested), into the backoff sleep, or out of the loop.
AfterFailurePc(s) ==
    IF should_stop[s] THEN "check"
    ELSE IF CountedAttempts(s) < max_reconnect_attempts THEN "backoff"
    ELSE "done"

\* connect(): the "max attempts reached" events emitted when an attempt
\* ends on path p; only the branch after run_forever returned emits one.
GaveUpEvents(s, p) ==
    IF ~should_stop[s] /\ CountedAttempts(s) >= max_reconnect_attempts
       /\ p = "closed"
    THEN 1 ELSE 0

\* connect(): the backoff sleeps of the current series of attempts.
CountedWaits(s) ==
    IF AfterFailurePc(s) = "backoff" THEN waits[s] + 1
    ELSE waits[s]

\* A backoff that does not grow with the attempts.
BackoffDelayFlat(a) == BackoffBase

\* connect(), wait_time after a closed connection.
BackoffDelay(a) == Min(BackoffCap, BackoffBase * a)

\* Every live heartbeat thread of s is now one whose transport has closed.
Orphaned(b) == BagOfAll(LAMBDA r : [r EXCEPT !.stale = TRUE], b)

\* The transport closes (connect failure, peer close, or a requested
\* close): on_close runs, run_forever returns, connect() counts the attempt.
RunForeverReturns(s) ==
    /\ tpc[s] = "run" /\ ws[s] \in {"connecting", "open"}
    /\ ws' = Upd(ws, s, "closed")
    /\ wsCloseReq' = Upd(wsCloseReq, s, FALSE)
    /\ connected' = Upd(connected, s, FALSE)
    /\ reconnect_attempts' = Upd(reconnect_attempts, s, CountedAttempts(s))
    /\ tpc' = Upd(tpc, s, AfterFailurePc(s))
    /\ wait_time' = Upd(wait_time, s,
                        IF AfterFailurePc(s) = "backoff"
                        THEN BackoffDelay(CountedAttempts(s)) ELSE 0)
    /\ hb' = Upd(hb, s, Orphaned(hb[s]))
    /\ UNCHANGED <<mgrVars, token, token_index, should_stop,
                   heartbeat_interval, last_heartbeat, user_data,
                   proto, noack, hbLeak>>
    /\ path' = Upd(path, s, IF AfterFailurePc(s) = "backoff"
                             THEN "closed" ELSE "none")
    /\ gave_up' = Upd(gave_up, s, gave_up[s] + GaveUpEvents(s, "closed"))
    /\ waits' = Upd(waits, s, CountedWaits(s))
    /\ UNCHANGED <<tries, stops, sleep_left, since_begin, spc,
                   sidx, st_total, st_connected, st_healthy, st_clients,
                   st_entry>>

\* run_forever raises before the socket is open: the except branch of
\* connect() counts the attempt and sleeps a fixed delay.
RunForeverRaises(s) ==
    /\ tpc[s] = "run" /\ ws[s] = "connecting"
    /\ ws' = Upd(ws, s, "closed")
    /\ wsCloseReq' = Upd(wsCloseReq, s, FALSE)
    /\ reconnect_attempts' = Upd(reconnect_attempts, s, CountedAttempts(s))
    /\ tpc' = Upd(tpc, s, AfterFailurePc(s))
    /\ wait_time' = Upd(wait_time, s,
                        IF AfterFailurePc(s) = "backoff"
                        THEN ExceptionDelay ELSE 0)
    /\ hb' = Upd(hb, s, Orphaned(hb[s]))
    /\ UNCHANGED <<mgrVars, token, token_index, should_stop, connected,
                   heartbeat_interval, last_heartbeat, user_data,
                   proto, noack, hbLeak>>
    /\ path' = Upd(path, s, IF AfterFailurePc(s) = "backoff"
                             THEN "raised" ELSE "none")
    /\ gave_up' = Upd(gave_up, s, gave_up[s] + GaveUpEvents(s, "raised"))
    /\ waits' = Upd(waits, s, CountedWaits(s))
    /\ UNCHANGED <<tries, stops, sleep_left, since_begin, spc,
                   sidx, st_total, st_connected, st_healthy, st_clients,
                   st_entry>>

\* connect(): the backoff sleep ends.
BackoffDone(s) ==
    /\ tpc[s] = "backoff" /\ Quiet
    /\ tpc' = Upd(tpc, s, "check")
    /\ wait_time' = Upd(wait_time, s, 0)
    /\ UNCHANGED <<mgrVars, objVars, ws, wsCloseReq, proto, noack, hb, hbLeak>>
    /\ path' = Upd(path, s, "none")
    /\ UNCHANGED <<gave_up, tries, waits, stops,
                   sleep_left, since_begin, spc, sidx, st_total,
                   st_connected, st_healthy, st_clients, st_entry>>

\* An on_open that leaves reconnect_attempts alone.
OnOpenAttemptsKept(s) == reconnect_attempts[s]

\* on_open: what it stores in reconnect_attempts.
OnOpenAttempts(s) == 0

\* on_open, called by run_forever once the socket is connected.
OnOpen(s) ==
    /\ tpc[s] = "run" /\ ws[s] = "connecting"
    /\ ws' = Upd(ws, s, "open")
    /\ connected' = Upd(connected, s, TRUE)
    /\ reconnect_attempts' = Upd(reconnect_attempts, s, OnOpenAttempts(s))
    /\ UNCHANGED <<mgrVars, token, token_index, should_stop,
                   heartbeat_interval, last_heartbeat, user_data,
                   tpc, wait_time, wsCloseReq, proto, noack, hb, hbLeak>>
    /\ tries' = Upd(tries, s, 1)
    /\ waits' = Upd(waits, s, 0)
    /\ UNCHANGED <<gave_up, path, stops, sleep_left, since_begin,
                   spc, sidx, st_total, st_connected, st_healthy,
                   st_clients, st_entry>>

\* on_message, op 10 (hello, sent by the gateway once per connection):
\* stores the interval, starts a heartbeat thread without ending an
\* earlier one, sends identify.
OnMessageHello(s, iv) ==
    /\ tpc[s] = "run" /\ ws[s] = "open" /\ proto[s] = "none"
    /\ BagCardinality(hb[s]) < MaxHb
    /\ heartbeat_interval' = Upd(heartbeat_interval, s, iv)
    /\ hb' = Upd(hb, s, hb[s] (+) SetToBag({[sleep |-> 0, stale |-> FALSE]}))
    /\ proto' = Upd(proto, s, "hello")
    /\ UNCHANGED <<mgrVars, token, token_index, should_stop, connected,
                   reconnect_attempts, last_heartbeat, user_data,
                   tpc, wait_time, ws, wsCloseReq, noack, hbLeak>>
    /\ UNCHANGED <<gave_up, path, tries, waits, stops,
                   sleep_left, since_begin, spc, sidx, st_total,
                   st_connected, st_healthy, st_clients, st_entry>>

\* on_message, event READY (sent by the gateway after identify).
OnMessageReady(s) ==
    /\ tpc[s] = "run" /\ ws[s] = "open" /\ proto[s] = "hello"
    /\ user_data' = Upd(user_data, s, TRUE)
    /\ proto' = Upd(proto, s, "ready")
    /\ UNCHANGED <<mgrVars, token, token_index, should_stop, connected,
                   reconnect_attempts, heartbeat_interval, last_heartbeat,
                   tpc, wait_time, ws, wsCloseReq, noack, hb, hbLeak>>
    /\ UNCHANGED <<gave_up, path, tries, waits, stops,
                   sleep_left, since_begin, spc, sidx, st_total,
                   st_connected, st_healthy, st_clients, st_entry>>

\* on_message, op 11 (the gateway acknowledges the heartbeats sent so far):
\* no field of the client changes.
OnMessageAck(s) ==
    /\ tpc[s] = "run" /\ ws[s] = "open" /\ noack[s] # -1
    /\ noack' = Upd(noack, s, -1)
    /\ UNCHANGED <<mgrVars, objVars, tpc, wait_time, ws, wsCloseReq, proto,
                   hb, hbLeak>>
    /\ UNCHANGED <<gave_up, path, tries, waits, stops,
                   sleep_left, since_begin, spc, sidx, st_total,
                   st_connected, st_healthy, st_clients, st_entry>>

\* heartbeat(), the while condition.
HeartbeatCondition(s) ==
    heartbeat_interval[s] # 0 /\ ws[s] = "open" /\ ~should_stop[s]

\* heartbeat(), one round of a thread whose sleep is over: send and sleep
\* again, or leave the loop.
Heartbeat(s) ==
    /\ \E r \in BagToSet(hb[s]) :
        /\ r.sleep = 0
        /\ IF HeartbeatCondition(s)
           THEN /\ last_heartbeat' = Upd(last_heartbeat, s, 0)
                /\ hb' = Upd(hb, s, (hb[s] (-) SetToBag({r}))
                              (+) SetToBag({[r EXCEPT !.sleep = heartbeat_interval[s]]}))
                /\ hbLeak' = Upd(hbLeak, s, hbLeak[s] \/ r.stale)
                /\ noack' = IF noack[s] = -1 THEN Upd(noack, s, 0) ELSE noack
           ELSE /\ hb' = Upd(hb, s, hb[s] (-) SetToBag({r}))
                /\ UNCHANGED <<last_heartbeat, hbLeak, noack>>
    /\ UNCHANGED <<mgrVars, token, token_index, should_stop, connected,
                   reconnect_attempts, heartbeat_interval, user_data,
                   tpc, wait_time, ws, wsCloseReq, proto>>
    /\ UNCHANGED <<gave_up, path, tries, waits, stops,
                   sleep_left, since_begin, spc, sidx, st_total,
                   st_connected, st_healthy, st_clients, st_entry>>

\* One tick of time passes.
Tick ==
    /\ Quiet
    /\ last_heartbeat' = [s \in Sessions |->
                            IF last_heartbeat[s] = -1 THEN -1
                            ELSE Min(last_heartbeat[s] + 1, AgeCap)]
    /\ noack' = [s \in Sessions |->
                    IF ws[s] = "open" /\ noack[s] # -1
                    THEN Min(noack[s] + 1, HealthFactor * MaxInterval)
                    ELSE noack[s]]
    /\ hb' = [s \in Sessions |->
                BagOfAll(LAMBDA r : [r EXCEPT !.sleep = r.sleep - 1], hb[s])]
    /\ \/ last_heartbeat' # last_heartbeat \/ noack' # noack \/ hb' # hb
    /\ UNCHANGED <<mgrVars, token, token_index, should_stop, connected,
                   reconnect_attempts, heartbeat_interval, user_data,
                   tpc, wait_time, ws, wsCloseReq, proto, hbLeak>>
    /\ UNCHANGED <<gave_up, path, tries, waits, stops,
                   sleep_left, since_begin, spc, sidx, st_total,
                   st_connected, st_healthy, st_clients, st_entry>>


\* ------------------------------------------------------- OnlineManager
\* An is_alive() that reports every thread as ended.
IsAliveNever(s) == FALSE

\* Thread.is_alive() of the thread that runs connect() of client s.
IsAlive(s) == tpc[s] # "done"

Fresh == nsess + 1

\* start_all_clients, loop body up to thread.start(): a client for the
\* token at position idx is created and its thread is started (after the
\* stagger sleep of the round before, if there was one).
StartLaunch ==
    /\ mpc = "start" /\ idx <= Len(tokens) /\ nsess < Len(tokens) + MaxRestarts
    /\ idx > 1 => Quiet
    /\ InitClient(Fresh, tokens[idx], idx)
    /\ tpc' = Upd(tpc, Fresh, "start")
    /\ newc' = Fresh
    /\ nsess' = Fresh
    /\ mpc' = "append"
    /\ UNCHANGED <<tokens, clients, threads, mgr_should_stop, idx,
                   wait_time, wsCloseReq, proto, noack, hb, hbLeak>>
    /\ sleep_left' = 0
    /\ UNCHANGED <<gave_up, path, tries, waits, stops,
                   since_begin, spc, sidx, st_total, st_connected,
                   st_healthy, st_clients, st_entry>>

\* start_all_clients, rest of the loop body: the client and its thread are
\* appended; the stagger sleep follows unless this was the last token.
StartAppend ==
    /\ mpc = "append"
    /\ clients' = Append(clients, newc)
    /\ threads' = Append(threads, newc)
    /\ idx' = idx + 1
    /\ mpc' = "start"
    /\ UNCHANGED <<tokens, mgr_should_stop, newc, nsess, objVars, thrVars>>
    /\ sleep_left' = IF idx < Len(tokens) THEN StaggerDelay ELSE 0
    /\ UNCHANGED <<gave_up, path, tries, waits, stops,
                   since_begin, spc, sidx, st_total, st_connected,
                   st_healthy, st_clients, st_entry>>

\* start_all_clients, after the loop: monitor_clients is entered.
StartDone ==
    /\ mpc = "start" /\ idx > Len(tokens)
    /\ mpc' = "monitor"
    /\ idx' = 1
    /\ UNCHANGED <<tokens, clients, threads, mgr_should_stop, newc, nsess,
                   objVars, thrVars>>
    /\ UNCHANGED <<gave_up, path, tries, waits, stops,
                   sleep_left, since_begin, spc, sidx, st_total,
                   st_connected, st_healthy, st_clients, st_entry>>

\* A restart condition that ignores should_stop.
ShouldRestartIgnoringStop(k) == ~IsAlive(threads[k])

\* monitor_clients, the restart condition for position k.
ShouldRestart(k) == ~IsAlive(threads[k]) /\ ~should_stop[clients[k]]

\* monitor_clients, one round of the for loop: position idx is restarted
\* or passed over.
MonitorPoll ==
    /\ mpc = "monitor" /\ idx <= Len(clients)
    /\ IF ShouldRestart(idx)
       THEN /\ nsess < Len(tokens) + MaxRestarts
            /\ mpc' = "restart"
            /\ idx' = idx
       ELSE /\ mpc' = "monitor"
            /\ idx' = idx + 1
    /\ UNCHANGED <<tokens, clients, threads, mgr_should_stop, newc, nsess,
                   objVars, thrVars>>
    /\ UNCHANGED <<gave_up, path, tries, waits, stops,
                   sleep_left, since_begin, spc, sidx, st_total,
                   st_connected, st_healthy, st_clients, st_entry>>

\* monitor_clients, the sleep between polls and the while condition.
MonitorSleep ==
    /\ mpc = "monitor" /\ idx > Len(clients) /\ ~mgr_should_stop /\ Quiet
    /\ idx' = 1
    /\ UNCHANGED <<tokens, clients, threads, mgr_should_stop, mpc, newc,
                   nsess, objVars, thrVars>>
    /\ UNCHANGED <<gave_up, path, tries, waits, stops,
                   sleep_left, since_begin, spc, sidx, st_total,
                   st_connected, st_healthy, st_clients, st_entry>>

\* restart_client: old_client.stop(), then the wait for cleanup.
RestartStopOld ==
    /\ mpc = "restart"
    /\ Stop(clients[idx])
    /\ mpc' = "restart_wait"
    /\ UNCHANGED <<tokens, clients, threads, mgr_should_stop, idx, newc,
                   nsess, token, token_index, reconnect_attempts,
                   heartbeat_interval, last_heartbeat, user_data,
                   tpc, wait_time, ws, proto, noack, hb, hbLeak>>
    /\ UNCHANGED <<gave_up, path, tries, waits, sleep_left,
                   since_begin, spc, sidx, st_total, st_connected,
                   st_healthy, st_clients, st_entry>>

\* A restart_client that always takes the first token.
RestartTokenFirst(k) == tokens[1]

\* restart_client: the token and the token_index of the new client.
RestartToken(k) == tokens[k]
RestartTokenIndex(k) == k

\* restart_client: the new client is created and its thread started.
RestartLaunch ==
    /\ mpc = "restart_wait" /\ Quiet
    /\ InitClient(Fresh, RestartToken(idx), RestartTokenIndex(idx))
    /\ tpc' = Upd(tpc, Fresh, "start")
    /\ newc' = Fresh
    /\ nsess' = Fresh
    /\ mpc' = "restart_assign"
    /\ UNCHANGED <<tokens, clients, threads, mgr_should_stop, idx,
                   wait_time, wsCloseReq, proto, noack, hb, hbLeak>>
    /\ UNCHANGED <<gave_up, path, tries, waits, stops,
                   sleep_left, since_begin, spc, sidx, st_total,
                   st_connected, st_healthy, st_clients, st_entry>>

\* restart_client: creating or starting the thread raises; the except
\* branch logs and restart_client returns to the monitor loop.
RestartLaunchFails ==
    /\ mpc = "restart_wait" /\ Quiet
    /\ mpc' = "monitor"
    /\ idx' = idx + 1
    /\ UNCHANGED <<tokens, clients, threads, mgr_should_stop, newc, nsess,
                   objVars, thrVars>>
    /\ UNCHANGED <<gave_up, path, tries, waits, stops,
                   sleep_left, since_begin, spc, sidx, st_total,
                   st_connected, st_healthy, st_clients, st_entry>>

\* restart_client: the slot to store the new client and thread in.
RestartSlot(k) == k

\* restart_client: the new client and thread replace the old ones.
RestartAssign ==
    /\ mpc = "restart_assign"
    /\ clients' = [clients EXCEPT ![RestartSlot(idx)] = newc]
    /\ threads' = [threads EXCEPT ![RestartSlot(idx)] = newc]
    /\ mpc' = "monitor"
    /\ idx' = idx + 1
    /\ UNCHANGED <<tokens, mgr_should_stop, newc, nsess, objVars, thrVars>>
    /\ UNCHANGED <<gave_up, path, tries, waits, stops,
                   sleep_left, since_begin, spc, sidx, st_total,
                   st_connected, st_healthy, st_clients, st_entry>>

\* The main thread is interrupted (signal handler, or KeyboardInterrupt in
\* monitor_clients) and enters stop_all_clients; it never resumes what it
\* was doing.
StopAllBegin ==
    /\ mpc \in {"start", "append", "monitor", "restart", "restart_wait",
                "restart_assign"}
    /\ mgr_should_stop' = TRUE
    /\ mpc' = "stop_all"
    /\ idx' = 1
    /\ UNCHANGED <<tokens, clients, threads, newc, nsess, objVars, thrVars>>
    /\ sleep_left' = 0
    /\ UNCHANGED <<gave_up, path, tries, waits, stops,
                   since_begin, spc, sidx, st_total, st_connected,
                   st_healthy, st_clients, st_entry>>

\* A further signal arrives while the main thread is in stop_all_clients:
\* the handler enters stop_all_clients again.
StopAllAgain ==
    /\ mpc = "stop_all"
    /\ mgr_should_stop' = TRUE
    /\ idx' = 1
    /\ UNCHANGED <<tokens, clients, threads, mpc, newc, nsess, objVars,
                   thrVars, histVars, timeVars, statVars>>

\* stop_all_clients, one round of the for loop.
StopAllNext ==
    /\ mpc = "stop_all" /\ idx <= Len(clients)
    /\ Stop(clients[idx])
    /\ idx' = idx + 1
    /\ UNCHANGED <<tokens, clients, threads, mgr_should_stop, mpc, newc,
                   nsess, token, token_index, reconnect_attempts,
                   heartbeat_interval, last_heartbeat, user_data,
                   tpc, wait_time, ws, proto, noack, hb, hbLeak>>
    /\ UNCHANGED <<gave_up, path, tries, waits, sleep_left,
                   since_begin, spc, sidx, st_total, st_connected,
                   st_healthy, st_clients, st_entry>>

\* stop_all_clients, after the loop: the wait, the notification, return.
\* The main thread does nothing more; the client threads are followed for
\* as long as the process lives after it.
StopAllReturn ==
    /\ mpc = "stop_all" /\ idx > Len(clients) /\ Quiet
    /\ mpc' = "stopped"
    /\ UNCHANGED <<tokens, clients, threads, mgr_should_stop, idx, newc,
                   nsess, objVars, thrVars>>
    /\ UNCHANGED <<gave_up, path, tries, waits, stops,
                   sleep_left, since_begin, spc, sidx, st_total,
                   st_connected, st_healthy, st_clients, st_entry>>

\* ------------------------------------------------- OnlineManager.get_status
\* get_status() is called by a thread of its own while the monitor runs.
\* Each of its two sums reads the fleet in one step; the loop reads one
\* field of one client per step.  Of each entry the snapshot keeps the
\* fields "connected" and "healthy".
CountConnected ==
    Cardinality({k \in 1..Len(clients) : connected[clients[k]]})

CountHealthy ==
    Cardinality({k \in 1..Len(clients) : IsHealthy(clients[k])})

\* get_status: "total" is evaluated.
StatusBegin ==
    /\ spc \in {"idle", "returned"}
    /\ mpc \in {"monitor", "restart", "restart_wait", "restart_assign"}
    /\ st_total' = Len(clients)
    /\ st_connected' = 0
    /\ st_healthy' = 0
    /\ st_clients' = << >>
    /\ st_entry' = <<0, FALSE>>
    /\ sidx' = 1
    /\ spc' = "connected"
    /\ UNCHANGED <<mgrVars, objVars, thrVars, histVars, timeVars>>

\* get_status: "connected" is evaluated.
StatusCountConnected ==
    /\ spc = "connected"
    /\ st_connected' = CountConnected
    /\ spc' = "healthy"
    /\ UNCHANGED <<mgrVars, objVars, thrVars, histVars, timeVars,
                   sidx, st_total, st_healthy, st_clients, st_entry>>

\* get_status: "healthy" is evaluated.
StatusCountHealthy ==
    /\ spc = "healthy"
    /\ st_healthy' = CountHealthy
    /\ spc' = "entry"
    /\ UNCHANGED <<mgrVars, objVars, thrVars, histVars, timeVars,
                   sidx, st_total, st_connected, st_clients, st_entry>>

\* get_status, the for loop: the next client is taken from self.clients
\* and its connected field is read.
StatusEntryConnected ==
    /\ spc = "entry" /\ sidx <= Len(clients)
    /\ st_entry' = <<clients[sidx], connected[clients[sidx]]>>
    /\ spc' = "entry_healthy"
    /\ UNCHANGED <<mgrVars, objVars, thrVars, histVars, timeVars,
                   sidx, st_total, st_connected, st_healthy, st_clients>>

\* get_status, the for loop: is_healthy() of the same client is called and
\* the entry is appended.
StatusEntryHealthy ==
    /\ spc = "entry_healthy"
    /\ st_clients' = Append(st_clients, [connected |-> st_entry[2],
                                         healthy |-> IsHealthy(st_entry[1])])
    /\ sidx' = sidx + 1
    /\ spc' = "entry"
    /\ UNCHANGED <<mgrVars, objVars, thrVars, histVars, timeVars,
                   st_total, st_connected, st_healthy, st_entry>>

\* get_status: the loop is over and the snapshot is returned.
StatusReturn ==
    /\ spc = "entry" /\ sidx > Len(clients)
    /\ spc' = "returned"
    /\ UNCHANGED <<mgrVars, objVars, thrVars, histVars, timeVars,
                   sidx, st_total, st_connected, st_healthy, st_clients,
                   st_entry>>

\* --------------------------------------------------- the launch loop, timed
\* The main thread is in the stagger sleep of start_all_clients.
StaggerSleeping == mpc = "start" /\ idx > 1 /\ idx <= Len(tokens)

\* One second passes: no thread is computing and no sleep is over.
Second ==
    /\ StaggerSleeping /\ sleep_left > 0
    /\ \A s \in Sessions :
          ~Busy(s) /\ (tpc[s] = "backoff" => wait_time[s] > 0)
    /\ sleep_left' = sleep_left - 1
    /\ wait_time' = [s \in Sessions |->
                        IF tpc[s] = "backoff" THEN wait_time[s] - 1
                        ELSE wait_time[s]]
    /\ since_begin' = IF since_begin = -1 THEN -1
                      ELSE Min(since_begin + 1, StaggerDelay)
    /\ UNCHANGED <<mgrVars, objVars, tpc, ws, wsCloseReq, proto, noack, hb,
                   hbLeak, histVars, statVars>>

\* start_all_clients: the stagger sleep is over and the next client is
\* launched.
StaggeredLaunch ==
    /\ sleep_left = 0
    /\ StartLaunch

\* connect(): the backoff sleep has lasted wait_time seconds.
BackoffElapsed(s) ==
    /\ wait_time[s] = 0
    /\ BackoffDone(s)

\* --------------------------------------------------- an accepting gateway
\* The peer closes a transport that has opened: on_close runs, run_forever
\* returns, connect() counts the attempt.
PeerCloses(s) ==
    /\ ws[s] = "open"
    /\ RunForeverReturns(s)

\* ------------------------------------------------------- specification
Next ==
    \/ StartLaunch
    \/ StartAppend
    \/ StartDone
    \/ MonitorPoll
    \/ MonitorSleep
    \/ RestartStopOld
    \/ RestartLaunch
    \/ RestartLaunchFails
    \/ RestartAssign
    \/ StopAllBegin
    \/ StopAllNext
    \/ StopAllReturn
    \/ Tick
    \/ \E s \in Sessions :
        \/ ConnectBegin(s)
        \/ ConnectLoop(s)
        \/ CreateTransport(s)
        \/ RunForeverReturns(s)
        \/ RunForeverRaises(s)
        \/ BackoffDone(s)
        \/ OnOpen(s)
        \/ \E iv \in Intervals : OnMessageHello(s, iv)
        \/ OnMessageReady(s)
        \/ OnMessageAck(s)
        \/ Heartbeat(s)

Spec == Init /\ [][Next]_vars


\* The fleet under a gateway that accepts or refuses connections but never
\* sends hello: the heartbeat and handshake actions left out write only
\* heartbeat_interval, last_heartbeat, user_data, proto, noack, hb and
\* hbLeak, which no guard of the actions kept here reads.
NextFleet ==
    \/ StartLaunch
    \/ StartAppend
    \/ StartDone
    \/ MonitorPoll
    \/ MonitorSleep
    \/ RestartStopOld
    \/ RestartLaunch
    \/ RestartLaunchFails
    \/ RestartAssign
    \/ StopAllBegin
    \/ StopAllNext
    \/ StopAllReturn
    \/ \E s \in Sessions :
        \/ ConnectBegin(s)
        \/ ConnectLoop(s)
        \/ CreateTransport(s)
        \/ RunForeverReturns(s)
        \/ RunForeverRaises(s)
        \/ BackoffDone(s)
        \/ OnOpen(s)

SpecFleet == InitFleet /\ [][NextFleet]_vars

\* A fleet of at most NumTokens tokens, under the same gateway, with a
\* thread that calls get_status() again and again.
NextStatus ==
    \/ StartLaunch
    \/ StartAppend
    \/ StartDone
    \/ MonitorPoll
    \/ MonitorSleep
    \/ RestartStopOld
    \/ RestartLaunch
    \/ RestartLaunchFails
    \/ RestartAssign
    \/ StopAllBegin
    \/ StopAllNext
    \/ StopAllReturn
    \/ StatusBegin
    \/ StatusCountConnected
    \/ StatusCountHealthy
    \/ StatusEntryConnected
    \/ StatusEntryHealthy
    \/ StatusReturn
    \/ \E s \in Sessions :
        \/ ConnectBegin(s)
        \/ ConnectLoop(s)
        \/ CreateTransport(s)
        \/ RunForeverReturns(s)
        \/ RunForeverRaises(s)
        \/ BackoffDone(s)
        \/ OnOpen(s)

SpecStatus == Init /\ [][NextStatus]_vars

\* The program with stop signals that may arrive more than once.
NextStops ==
    \/ StartLaunch
    \/ StartAppend
    \/ StartDone
    \/ MonitorPoll
    \/ MonitorSleep
    \/ RestartStopOld
    \/ RestartLaunch
    \/ RestartLaunchFails
    \/ RestartAssign
    \/ StopAllBegin
    \/ StopAllAgain
    \/ StopAllNext
    \/ StopAllReturn
    \/ Tick
    \/ \E s \in Sessions :
        \/ ConnectBegin(s)
        \/ ConnectLoop(s)
        \/ CreateTransport(s)
        \/ RunForeverReturns(s)
        \/ RunForeverRaises(s)
        \/ BackoffDone(s)
        \/ OnOpen(s)
        \/ \E iv \in Intervals : OnMessageHello(s, iv)
        \/ OnMessageReady(s)
        \/ OnMessageAck(s)
        \/ Heartbeat(s)

SpecStops == Init /\ [][NextStops]_vars

\* The fleet under a gateway that refuses every connection, with no stop
\* signal: no transport ever opens and stop() is called on no client whose
\* connect() is running (restart_client calls it on a client whose thread
\* has ended).
NextRefused ==
    \/ StartLaunch
    \/ StartAppend
    \/ StartDone
    \/ MonitorPoll
    \/ MonitorSleep
    \/ RestartStopOld
    \/ RestartLaunch
    \/ RestartLaunchFails
    \/ RestartAssign
    \/ \E s \in Sessions :
        \/ ConnectBegin(s)
        \/ ConnectLoop(s)
        \/ CreateTransport(s)
        \/ RunForeverReturns(s)
        \/ RunForeverRaises(s)
        \/ BackoffDone(s)

\* Every thread that can run does run, every connection attempt ends, and
\* every sleep of connect() ends.
FairRefused ==
    /\ WF_vars(StartLaunch \/ StartAppend \/ StartDone \/ MonitorPoll
               \/ RestartStopOld \/ RestartAssign)
    /\ \A s \in Sessions :
          /\ WF_vars(ConnectBegin(s))
          /\ WF_vars(ConnectLoop(s))
          /\ WF_vars(CreateTransport(s))
          /\ WF_vars(RunForeverReturns(s) \/ RunForeverRaises(s))
          /\ SF_vars(BackoffDone(s))

SpecRefused == InitFleet /\ [][NextRefused]_vars /\ FairRefused

\* The fleet under a gateway that accepts every connection and closes it
\* some time after it has opened, before or after hello and READY, with no
\* stop signal.
NextAccepting ==
    \/ StartLaunch
    \/ StartAppend
    \/ StartDone
    \/ MonitorPoll
    \/ MonitorSleep
    \/ Tick
    \/ \E s \in Sessions :
        \/ ConnectBegin(s)
        \/ ConnectLoop(s)
        \/ CreateTransport(s)
        \/ PeerCloses(s)
        \/ BackoffDone(s)
        \/ OnOpen(s)
        \/ \E iv \in Intervals : OnMessageHello(s, iv)
        \/ OnMessageReady(s)
        \/ OnMessageAck(s)
        \/ Heartbeat(s)

\* Every thread that can run does run, every connection opens and is
\* closed by the peer, and every sleep of connect() ends.
FairAccepting ==
    /\ WF_vars(StartLaunch \/ StartAppend \/ StartDone \/ MonitorPoll)
    /\ \A s \in Sessions :
          /\ WF_vars(ConnectBegin(s))
          /\ WF_vars(ConnectLoop(s))
          /\ WF_vars(CreateTransport(s))
          /\ WF_vars(OnOpen(s))
          /\ WF_vars(PeerCloses(s))
          /\ WF_vars(Heartbeat(s))
          /\ SF_vars(BackoffDone(s))

SpecAccepting == Init /\ [][NextAccepting]_vars /\ FairAccepting

\* The launch loop of start_all_clients on a clock of seconds, under a
\* gateway that accepts or refuses connections: the sleeps last as long as
\* the code asks, network events take any time.
NextStagger ==
    \/ StaggeredLaunch
    \/ StartAppend
    \/ Second
    \/ \E s \in Sessions :
        \/ ConnectBegin(s)
        \/ ConnectLoop(s)
        \/ CreateTransport(s)
        \/ RunForeverReturns(s)
        \/ RunForeverRaises(s)
        \/ BackoffElapsed(s)
        \/ OnOpen(s)

SpecStagger == InitFleet /\ [][NextStagger]_vars


\* --------------------------------------------------------- properties
Live == 1..nsess
Fleet == {clients[k] : k \in 1..Len(clients)}

\* The session is in Ready: READY has been received on its open connection.
Ready(s) == ws[s] = "open" /\ proto[s] = "ready"

\* C1: reconnect_attempts of a session never decreases, except in the step
\* that receives READY, where it becomes 0; an open of the transport that
\* READY does not follow leaves the counter alone.  (Stated for the fleet
\* in normal operation: no stop of the fleet has been requested.)
C1_ResetOnlyAtReady ==
    [][\A s \in Sessions :
          \/ mgr_should_stop
          \/ reconnect_attempts'[s] >= reconnect_attempts[s]
          \/ /\ ~Ready(s) /\ Ready(s)'
             /\ reconnect_attempts'[s] = 0]_vars

\* C2: once reconnect_attempts of a session has reached
\* max_reconnect_attempts, its connect() thread has ended and stays ended:
\* the session creates no transport again and its counter stays at the limit.
C2_ExhaustedIsTerminal ==
    [][\A s \in Sessions :
          reconnect_attempts[s] >= max_reconnect_attempts
          => /\ tpc[s] = "done" /\ tpc'[s] = "done"
             /\ ws'[s] = ws[s]
             /\ reconnect_attempts'[s] = reconnect_attempts[s]]_vars

\* C2 witness: a session gave up after max_reconnect_attempts failures with
\* no stop requested, and the program went on.
C2_Witness ==
    \E s \in Live :
        /\ reconnect_attempts[s] = max_reconnect_attempts
        /\ tpc[s] = "done" /\ ~should_stop[s] /\ ws[s] = "closed"
        /\ mpc = "monitor"

\* C3: is_healthy() is false for every session that is not in Ready.
\* (Stated for the fleet in normal operation.)
C3_HealthyOnlyWhenReady ==
    ~mgr_should_stop => \A s \in Sessions : IsHealthy(s) => Ready(s)

\* C4: on an open transport of a session that was not stopped, once a
\* heartbeat has gone unacknowledged for 3 heartbeat intervals,
\* is_healthy() is false (whether or not heartbeats are still being sent).
\* (Stated for the fleet in normal operation.)
C4_UnackedIsUnhealthy ==
    \A s \in Sessions :
        /\ ~mgr_should_stop
        /\ tpc[s] = "run" /\ ws[s] = "open" /\ ~wsCloseReq[s]
        /\ heartbeat_interval[s] # 0
        /\ noack[s] >= HealthFactor * heartbeat_interval[s]
        => ~IsHealthy(s)

\* C5: once stop_all_clients has returned and every close it requested has
\* been delivered, no session of the fleet is connected and none has a live
\* heartbeat thread.
C5_StopAllLeavesNothingLive ==
    (mpc = "stopped" /\ \A s \in Fleet : ~wsCloseReq[s])
    => \A s \in Fleet : ~connected[s] /\ hb[s] = EmptyBag

\* C6: once should_stop of a session is true it stays true, and the session
\* neither passes the loop condition of connect() nor creates a transport.
C6_StopIsPermanent ==
    [][\A s \in Sessions :
          should_stop[s]
          => /\ should_stop'[s]
             /\ ~(tpc[s] = "check" /\ tpc'[s] = "create")
             /\ ~(tpc[s] = "create" /\ tpc'[s] = "run")]_vars

\* C7: a session has at most one live heartbeat thread, and no heartbeat
\* thread sends a frame after the transport it was spawned on has closed.
\* (Stated for the fleet in normal operation.)
C7_OneHeartbeatPerConnection ==
    ~mgr_should_stop
    => \A s \in Sessions : BagCardinality(hb[s]) <= 1 /\ ~hbLeak[s]

\* C8: when the launch in restart_client fails, restart_client returns to
\* the monitor loop with the position still eligible: its thread is dead
\* and its client has should_stop false, so the next poll restarts it.
C8_FailedRestartStaysEligible ==
    [][(mpc = "restart_wait" /\ mpc' = "monitor")
       => /\ tpc'[threads'[idx]] = "done"
          /\ ~should_stop'[clients'[idx]]]_vars

\* C9: a round of the monitor's poll invokes restart_client for a position
\* exactly when the thread at that position has ended and the client there
\* has should_stop false.
C9_PollRestartsExactlyTheDead ==
    [][(mpc = "monitor" /\ idx <= Len(clients)
        /\ mpc' \in {"monitor", "restart"}
        /\ (mpc' = "restart" \/ idx' # idx))
       => (mpc' = "restart"
           <=> (tpc[threads[idx]] = "done" /\ ~should_stop[clients[idx]]))]_vars

\* C9 witness: the poll has invoked restart_client for a position whose
\* thread ended without a stop request, in a fleet of two.
C9_Witness ==
    /\ mpc = "restart" /\ Len(clients) = 2
    /\ tpc[threads[idx]] = "done" /\ ~should_stop[clients[idx]]

\* restart_client as a whole leaves every other position alone.
C10_Frame ==
    (mpc \in {"restart", "restart_wait", "restart_assign"}
     /\ mpc' \notin {mpc, "stop_all"})
    => \A j \in 1..Len(clients) :
          j # idx =>
             /\ clients'[j] = clients[j] /\ threads'[j] = threads[j]
             /\ \A s \in {clients[j], threads[j]} :
                   /\ token'[s] = token[s]
                   /\ token_index'[s] = token_index[s]
                   /\ should_stop'[s] = should_stop[s]
                   /\ connected'[s] = connected[s]
                   /\ reconnect_attempts'[s] = reconnect_attempts[s]
                   /\ heartbeat_interval'[s] = heartbeat_interval[s]
                   /\ last_heartbeat'[s] = last_heartbeat[s]
                   /\ user_data'[s] = user_data[s]
                   /\ tpc'[s] = tpc[s] /\ ws'[s] = ws[s]

\* restart_client stores at its position a client object not in the fleet
\* before, bound to the token of that position, with its own thread.
C10_Replaced ==
    (mpc = "restart_assign" /\ mpc' = "monitor")
    => /\ clients'[idx] \notin Fleet
       /\ threads'[idx] = clients'[idx]
       /\ token'[clients'[idx]] = tokens[idx]
       /\ token_index'[clients'[idx]] = idx
       /\ Len(clients') = Len(clients)

C11_Entries(f) == {i \in 1..Len(st_clients) : st_clients[i][f]}

\* C11: every snapshot returned by get_status() is consistent: "connected"
\* and "healthy" equal the numbers of entries with that field true, every
\* healthy entry is connected, and "total" is the number of entries.
C11_SnapshotConsistent ==
    spc = "returned"
    => /\ st_connected = Cardinality(C11_Entries("connected"))
       /\ st_healthy = Cardinality(C11_Entries("healthy"))
       /\ C11_Entries("healthy") \subseteq C11_Entries("connected")
       /\ st_total = Len(st_clients)

\* C12: when the transport of a session closes with no stop requested and
\* reconnect_attempts = max_reconnect_attempts - 1, the session counts the
\* attempt, emits no gave-up event and goes into the backoff sleep, from
\* which one more connection attempt follows.  (Stated for the fleet in
\* normal operation.)
C12_LastAttemptFollowsBackoff ==
    [][\A s \in Sessions :
          (/\ ~mgr_should_stop
           /\ tpc[s] = "run" /\ ws[s] \in {"connecting", "open"}
           /\ ws'[s] = "closed" /\ ~should_stop[s]
           /\ reconnect_attempts[s] = max_reconnect_attempts - 1)
          => /\ reconnect_attempts'[s] = max_reconnect_attempts
             /\ tpc'[s] = "backoff"
             /\ gave_up'[s] = gave_up[s]]_vars

\* C13: a session sleeping after its transport closed sleeps
\* min(30, 5 * reconnect_attempts) seconds, reconnect_attempts being the
\* incremented counter, which is between 5 and 30; a session sleeping in
\* the except branch sleeps 10 seconds; and the delay after a closure is
\* non-decreasing in reconnect_attempts, also where the cap applies.
C13_BackoffDelays ==
    /\ \A s \in Sessions :
          tpc[s] = "backoff"
          => \/ /\ path[s] = "closed"
                /\ wait_time[s] = Min(BackoffCap,
                                       BackoffBase * reconnect_attempts[s])
                /\ wait_time[s] >= BackoffBase /\ wait_time[s] <= BackoffCap
             \/ /\ path[s] = "raised"
                /\ wait_time[s] = ExceptionDelay
    /\ \A a, b \in 1..(max_reconnect_attempts + 2) :
          a <= b => BackoffDelay(a) <= BackoffDelay(b)

\* C13 witness: a session sleeps 20 seconds after its fourth consecutive
\* failure, a closed transport.
C13_Witness ==
    \E s \in Live :
        /\ tpc[s] = "backoff" /\ path[s] = "closed"
        /\ reconnect_attempts[s] = max_reconnect_attempts - 1
        /\ wait_time[s] = 20 /\ ~should_stop[s]

\* C14: in the state right after a session received READY (it entered
\* Ready), its reconnect_attempts is 0.
C14_ReadyHasZeroAttempts ==
    [][\A s \in Sessions :
          (~Ready(s) /\ Ready(s)') => reconnect_attempts'[s] = 0]_vars

\* C14 witness: a session is in Ready with reconnect_attempts = 0 on a
\* connection that followed a failed one: a heartbeat thread spawned on
\* the earlier, closed connection is still alive.
C14_Witness ==
    \E s \in Live :
        /\ Ready(s) /\ reconnect_attempts[s] = 0 /\ ~should_stop[s]
        /\ \E r \in BagToSet(hb[s]) : r.stale

\* C15: a session that has left connect() because its attempts were
\* exhausted has emitted exactly one gave-up event, whichever branch of
\* connect() counted the last attempt.  (Stated for the fleet in normal
\* operation.)
C15_GaveUpIsReported ==
    ~mgr_should_stop
    => \A s \in Sessions :
          (tpc[s] = "done" /\ reconnect_attempts[s] >= max_reconnect_attempts)
          => gave_up[s] = 1

\* C16: while start_all_clients is in its launch loop, a connection
\* attempt of any session begins at least StaggerDelay seconds after the
\* connection attempt before it, of whichever session.
C16_AttemptsAreStaggered ==
    [][\A s \in Sessions :
          (/\ tpc[s] = "create" /\ tpc'[s] = "run"
           /\ mpc \in {"start", "append"} /\ idx <= Len(tokens))
          => (since_begin = -1 \/ since_begin >= StaggerDelay)]_vars

\* The step is a call of stop() on session s (by restart_client or by
\* stop_all_clients).
C17_StopCall(s) ==
    \/ mpc = "restart" /\ mpc' = "restart_wait" /\ clients[idx] = s
    \/ /\ mpc = "stop_all" /\ idx <= Len(clients) /\ idx' = idx + 1
       /\ clients[idx] = s

\* C17: stop() leaves the session stopped (should_stop, not connected,
\* close of the transport requested) from any state; called on a session
\* that a stop() has left in that state it changes no field of the session;
\* it never moves the connect() thread, and it can be taken whatever that
\* thread is doing.
C17_StopIdempotentNonBlocking ==
    /\ [](/\ mpc = "restart" => ENABLED RestartStopOld
          /\ (mpc = "stop_all" /\ idx <= Len(clients)) => ENABLED StopAllNext)
    /\ [][\A s \in Sessions :
             C17_StopCall(s)
             => /\ Stopped(s)'
                /\ tpc'[s] = tpc[s] /\ ws'[s] = ws[s]
                /\ Stopped(s)
                   => /\ should_stop'[s] = should_stop[s]
                      /\ connected'[s] = connected[s]
                      /\ wsCloseReq'[s] = wsCloseReq[s]
                      /\ reconnect_attempts'[s] = reconnect_attempts[s]]_vars

\* C17 witness: stop() has been called twice on a session whose connect()
\* thread is still alive, and the session is stopped.
C17_Witness ==
    \E s \in Live :
        stops[s] /\ Stopped(s) /\ tpc[s] \notin {"none", "done"}

\* The connect() threads alive for the token at position k.
C18_AliveFor(k) ==
    {s \in Live : token_index[s] = k /\ tpc[s] \notin {"none", "done"}}

\* C18: at most one connect() thread is alive for each position of the
\* fleet, and restart_client starts the new thread of a position only when
\* the thread stored there has ended.
C18_OneThreadPerIndex ==
    /\ [](\A k \in 1..Len(tokens) : Cardinality(C18_AliveFor(k)) <= 1)
    /\ [][(mpc = "restart_wait" /\ mpc' = "restart_assign")
          => tpc[threads[idx]] = "done"]_vars

\* C18 witness: restart_client has started the new thread for position 2
\* of a fleet of two; the thread it replaces has ended.
C18_Witness ==
    /\ mpc = "restart_assign" /\ Len(clients) = 2 /\ idx = 2
    /\ tpc[newc] = "start" /\ token_index[newc] = 2
    /\ tpc[threads[2]] = "done" /\ C18_AliveFor(2) = {newc}
    /\ C18_AliveFor(1) # {}

\* C19: when no transport ever opens and no stop is requested, connect()
\* never makes more than max_reconnect_attempts connection attempts, it
\* does end, and when it has ended it has made exactly
\* max_reconnect_attempts attempts and max_reconnect_attempts - 1 backoff
\* sleeps and reconnect_attempts is max_reconnect_attempts.
C19_RefusedGivesUpAfterMax ==
    /\ [](\A s \in Sessions :
             /\ tries[s] <= max_reconnect_attempts
             /\ tpc[s] = "done"
                => /\ reconnect_attempts[s] = max_reconnect_attempts
                   /\ tries[s] = max_reconnect_attempts
                   /\ waits[s] = max_reconnect_attempts - 1)
    /\ \A s \in Sessions : (tpc[s] = "start") ~> (tpc[s] = "done")

\* C19 witness: a connect() that was never stopped has ended after five
\* attempts and four sleeps.
C19_Witness ==
    \E s \in Live :
        /\ tpc[s] = "done" /\ ~should_stop[s]
        /\ reconnect_attempts[s] = 5 /\ tries[s] = 5 /\ waits[s] = 4

\* C20: while the monitor runs and the fleet is not stopping, a session of
\* the fleet that has given up (its connect() has ended with the attempts
\* exhausted) is one the next poll will replace: its should_stop is false,
\* so that no position stays failed for good.
C20_GaveUpIsReplaced ==
    (mpc = "monitor" /\ ~mgr_should_stop)
    => \A k \in 1..Len(clients) :
          (/\ tpc[threads[k]] = "done"
           /\ reconnect_attempts[clients[k]] >= max_reconnect_attempts)
          => ~should_stop[clients[k]]

\* C21: when every connection attempt of a session opens its transport and
\* the peer then closes it, reconnect_attempts never exceeds 1, connect()
\* never ends, every backoff sleep is of BackoffBase (5) seconds, and the
\* session goes on reconnecting for ever.
C21_OpenedAttemptsNeverExhaust ==
    /\ [](\A s \in Sessions :
             /\ reconnect_attempts[s] <= 1
             /\ tpc[s] # "done"
             /\ tpc[s] = "backoff"
                => wait_time[s] = BackoffBase /\ reconnect_attempts[s] = 1)
    /\ \A s \in Sessions :
          /\ (tpc[s] = "start") ~> (tpc[s] = "run")
          /\ (tpc[s] = "run") ~> (tpc[s] = "backoff")
          /\ (tpc[s] = "backoff") ~> (tpc[s] = "run")

\* C21 witness: a session that has been online (READY received) and has
\* reconnected at least once before (a heartbeat thread of an earlier
\* connection has sent on a later one) is in a backoff sleep of 5 seconds
\* with reconnect_attempts = 1.
C21_Witness ==
    \E s \in Live :
        /\ tpc[s] = "backoff" /\ reconnect_attempts[s] = 1
        /\ wait_time[s] = 5 /\ hbLeak[s] /\ user_data[s]

====
